---- MODULE Spec2Model ----
(***************************************************************************)
(* slatec-pchip: shape-preserving piecewise cubic Hermite interpolation.   *)
(* The model follows src/index.ts.  JavaScript numbers are modelled as     *)
(* exact rationals <<num, den>> (den > 0, lowest terms); the JavaScript    *)
(* value `undefined` (an array hole, a missing result) is <<0, 0>>.        *)
(* Arrays are sequences; At(s, i) reads the 0-based JavaScript index i.    *)
(***************************************************************************)
EXTENDS Integers, Sequences, FiniteSets

VARIABLES x, y, pc, frame, i, deriv, q, eres, pres, err

vars == <<x, y, pc, frame, i, deriv, q, eres, pres, err>>

(***************************************************************************)
(* Bounds of the explored inputs.                                          *)
(***************************************************************************)
MaxN == 4
YMax == 3
MaxQ == 2
XMax == MaxN

(***************************************************************************)
(* Numbers.                                                                *)
(***************************************************************************)
IAbs(a) == IF a < 0 THEN -a ELSE a

RECURSIVE GCD(_, _)
GCD(a, b) == IF b = 0 THEN a ELSE GCD(b, a % b)

\* a division by zero gives a non-finite value, written with den = 0
Norm(n, d) ==
    IF d = 0 THEN <<IF n > 0 THEN 1 ELSE IF n < 0 THEN -1 ELSE 0, 0>>
    ELSE LET s == IF d < 0 THEN -1 ELSE 1
             g == GCD(IAbs(n), IAbs(d))
         IN  <<(s * n) \div g, (s * d) \div g>>

R(n) == <<n, 1>>
Undef == <<0, 0>>
Zero == R(0)
IsNum(a) == a[2] > 0

RAdd(a, b) == Norm(a[1] * b[2] + b[1] * a[2], a[2] * b[2])
RSub(a, b) == Norm(a[1] * b[2] - b[1] * a[2], a[2] * b[2])
RMul(a, b) == Norm(a[1] * b[1], a[2] * b[2])
RDiv(a, b) == Norm(a[1] * b[2], a[2] * b[1])
RNeg(a) == <<-a[1], a[2]>>
RLt(a, b) == a[1] * b[2] < b[1] * a[2]
RLe(a, b) == a[1] * b[2] <= b[1] * a[2]
RAbs(a) == <<IAbs(a[1]), a[2]>>
RMax(a, b) == IF RLt(a, b) THEN b ELSE a
RMin(a, b) == IF RLt(b, a) THEN b ELSE a

At(s, k) == s[k + 1]
RSeq(s) == [k \in 1..Len(s) |-> R(s[k])]

(***************************************************************************)
(* dpchst, src/index.ts 7-15.                                              *)
(***************************************************************************)
dpchst(arg1, arg2) ==
    IF arg1 = Zero \/ arg2 = Zero THEN 0
    ELSE IF RLt(Zero, arg1) THEN (IF RLt(Zero, arg2) THEN 1 ELSE -1)
    ELSE (IF RLt(Zero, arg2) THEN -1 ELSE 1)

(***************************************************************************)
(* dpchim, src/index.ts 23-104.                                            *)
(***************************************************************************)
NoFrame == [d |-> <<>>, h1 |-> Zero, del1 |-> Zero, h2 |-> Zero,
            del2 |-> Zero, hsum |-> Zero]

\* DpchimCheck accepting equal adjacent abscissas (< for <= in line 32)
DpchimCheckEqualOk(xs, ys) ==
    IF Len(xs) # Len(ys) THEN "input array lengths must match"
    ELSE IF Len(xs) < 2 THEN "number of data points less than two"
    ELSE IF \E k \in 1..(Len(xs) - 1) : At(xs, k) < At(xs, k - 1)
         THEN "x-array not strictly increasing"
    ELSE ""

\* lines 24-35: the message thrown, or "" when the input passes
DpchimCheck(xs, ys) ==
    IF Len(xs) # Len(ys) THEN "input array lengths must match"
    ELSE IF Len(xs) < 2 THEN "number of data points less than two"
    ELSE IF \E k \in 1..(Len(xs) - 1) : At(xs, k) <= At(xs, k - 1)
         THEN "x-array not strictly increasing"
    ELSE ""

\* lines 36-39
DpchimTwo(xs, ys) ==
    LET dv == RDiv(R(At(ys, 1) - At(ys, 0)), R(At(xs, 1) - At(xs, 0)))
    IN  <<dv, dv>>

\* EndAdjust without the reset of an estimate of the wrong sign (lines 51-53)
EndAdjustNoReset(raw, delAdj, del1, del2) ==
    IF dpchst(del1, del2) < 0
    THEN LET dmax == RMul(R(3), delAdj)
         IN  IF RLt(RAbs(dmax), RAbs(raw)) THEN dmax ELSE raw
    ELSE raw

\* lines 51-60 and 92-101: the shape-preserving adjustment of an end slope
EndAdjust(raw, delAdj, del1, del2) ==
    IF dpchst(raw, delAdj) < 0 THEN Zero
    ELSE IF dpchst(del1, del2) < 0
         THEN LET dmax == RMul(R(3), delAdj)
              IN  IF RLt(RAbs(dmax), RAbs(raw)) THEN dmax ELSE raw
    ELSE raw

\* lines 40-60
DpchimFirst(xs, ys) ==
    LET n == Len(xs)
        h1 == R(At(xs, 1) - At(xs, 0))
        del1 == RDiv(R(At(ys, 1) - At(ys, 0)), h1)
        h2 == R(At(xs, 2) - At(xs, 1))
        del2 == RDiv(R(At(ys, 2) - At(ys, 1)), h2)
        hsum == RAdd(h1, h2)
        w1 == RDiv(RAdd(h1, hsum), hsum)
        w2 == RDiv(RNeg(h1), hsum)
        raw == RAdd(RMul(w1, del1), RMul(w2, del2))
        d0 == EndAdjust(raw, del1, del1, del2)
    IN  [d |-> [k \in 1..n |-> IF k = 1 THEN d0 ELSE Undef],
         h1 |-> h1, del1 |-> del1, h2 |-> h2, del2 |-> del2, hsum |-> hsum]

\* lines 72-85: the slope of an interior knot
Interior(h1, h2, hsum, del1, del2) ==
    IF dpchst(del1, del2) > 0
    THEN LET hsumt3 == RMul(hsum, R(3))
             w1 == RDiv(RAdd(hsum, h1), hsumt3)
             w2 == RDiv(RAdd(hsum, h2), hsumt3)
             dmax == RMax(RAbs(del1), RAbs(del2))
             dmin == RMin(RAbs(del1), RAbs(del2))
             drat1 == RDiv(del1, dmax)
             drat2 == RDiv(del2, dmax)
         IN  RDiv(dmin, RAdd(RMul(w1, drat1), RMul(w2, drat2)))
    ELSE Zero

\* DpchimStep that never advances del1 (line 68 dropped)
DpchimStepStaleDel1(f, xs, ys, k) ==
    LET h1 == IF k > 1 THEN f.h2 ELSE f.h1
        h2 == IF k > 1 THEN R(At(xs, k + 1) - At(xs, k)) ELSE f.h2
        hsum == IF k > 1 THEN RAdd(h1, h2) ELSE f.hsum
        del1 == f.del1
        del2 == IF k > 1 THEN RDiv(R(At(ys, k + 1) - At(ys, k)), h2) ELSE f.del2
    IN  [d |-> [f.d EXCEPT ![k + 1] = Interior(h1, h2, hsum, del1, del2)],
         h1 |-> h1, del1 |-> del1, h2 |-> h2, del2 |-> del2, hsum |-> hsum]

\* lines 63-86: one iteration of the loop over the interior points
DpchimStep(f, xs, ys, k) ==
    LET h1 == IF k > 1 THEN f.h2 ELSE f.h1
        h2 == IF k > 1 THEN R(At(xs, k + 1) - At(xs, k)) ELSE f.h2
        hsum == IF k > 1 THEN RAdd(h1, h2) ELSE f.hsum
        del1 == IF k > 1 THEN f.del2 ELSE f.del1
        del2 == IF k > 1 THEN RDiv(R(At(ys, k + 1) - At(ys, k)), h2) ELSE f.del2
    IN  [d |-> [f.d EXCEPT ![k + 1] = Interior(h1, h2, hsum, del1, del2)],
         h1 |-> h1, del1 |-> del1, h2 |-> h2, del2 |-> del2, hsum |-> hsum]

\* lines 88-103
DpchimLast(f, n) ==
    LET w1 == RDiv(RNeg(f.h2), f.hsum)
        w2 == RDiv(RAdd(f.h2, f.hsum), f.hsum)
        raw == RAdd(RMul(w1, f.del1), RMul(w2, f.del2))
    IN  [f EXCEPT !.d[n] = EndAdjust(raw, f.del2, f.del1, f.del2)]

RECURSIVE DpchimLoop(_, _, _, _)
DpchimLoop(f, xs, ys, k) ==
    IF k < Len(xs) - 1 THEN DpchimLoop(DpchimStep(f, xs, ys, k), xs, ys, k + 1)
    ELSE f

\* the whole call on an input that passes the checks
dpchim(xs, ys) ==
    IF Len(xs) = 2 THEN DpchimTwo(xs, ys)
    ELSE DpchimLast(DpchimLoop(DpchimFirst(xs, ys), xs, ys, 1), Len(xs)).d

(***************************************************************************)
(* lowerBound, src/index.ts 111-128.                                       *)
(***************************************************************************)
RECURSIVE LowerBoundLoop(_, _, _, _)
LowerBoundLoop(arr, value, low, high) ==
    IF low < high
    THEN LET mid == (low + high) \div 2
         IN  IF RLt(At(arr, mid), value)
             THEN LowerBoundLoop(arr, value, mid + 1, high)
             ELSE LowerBoundLoop(arr, value, low, mid)
    ELSE high

lowerBound(arr, value) ==
    IF Len(arr) = 0 THEN 0 ELSE LowerBoundLoop(arr, value, 0, Len(arr))

(***************************************************************************)
(* piecewiseCubic, src/index.ts 138-158.  A JavaScript value passed as a   *)
(* query is [kind, num, arr]: a number (kind "scalar") or an array of      *)
(* numbers (kind "array").  A result is [kind, num, arr, msg]: a number    *)
(* or undefined ("scalar"), an array ("array") or a thrown error ("throw").*)
(***************************************************************************)
Scalar(v) == [kind |-> "scalar", num |-> v, arr |-> <<>>]
Array(s) == [kind |-> "array", num |-> 0, arr |-> s]
NoQuery == [kind |-> "none", num |-> 0, arr |-> <<>>]

RScalar(v) == [kind |-> "scalar", num |-> v, arr |-> <<>>, msg |-> ""]
RArray(s) == [kind |-> "array", num |-> Undef, arr |-> s, msg |-> ""]
Throw(m) == [kind |-> "throw", num |-> Undef, arr |-> <<>>, msg |-> m]
NoRes == [kind |-> "none", num |-> Undef, arr |-> <<>>, msg |-> ""]

\* line 146
LeftIndex(xs, xI, k) == lowerBound(xI, R(At(xs, k)))

\* RightIndex with every interval open on the right (lines 148-150 dropped)
RightIndexOpen(xs, xI, k) == lowerBound(xI, R(At(xs, k + 1)))

\* RightIndex with every interval closed on the right (i === x.length - 2 dropped)
RightIndexClosed(xs, xI, k) ==
    LET rightIndex == lowerBound(xI, R(At(xs, k + 1)))
    IN  IF rightIndex < Len(xI) /\ At(xI, rightIndex) = R(At(xs, k + 1))
        THEN rightIndex + 1
        ELSE rightIndex

\* lines 147-150
RightIndex(xs, xI, k) ==
    LET rightIndex == lowerBound(xI, R(At(xs, k + 1)))
    IN  IF k = Len(xs) - 2 /\ rightIndex < Len(xI)
           /\ At(xI, rightIndex) = R(At(xs, k + 1))
        THEN rightIndex + 1
        ELSE rightIndex

\* lines 141-144 and 152: the cubic of interval k at v
Cubic(xs, ys, m, k, v) ==
    LET xk == R(At(xs, k))
        xk1 == R(At(xs, k + 1))
        dX == RSub(xk1, xk)
        dY == R(At(ys, k + 1) - At(ys, k))
        c == RDiv(RSub(RDiv(dY, dX), At(m, k)), dX)
        d == RDiv(RSub(RAdd(At(m, k), At(m, k + 1)), RDiv(RMul(R(2), dY), dX)),
                  RMul(dX, dX))
        t == RSub(v, xk)
    IN  RAdd(R(At(ys, k)),
             RMul(t, RAdd(At(m, k), RMul(t, RAdd(c, RMul(d, RSub(v, xk1)))))))

\* lines 141-155: one iteration of the loop over the intervals
PwcInterval(xs, ys, m, xI, yI, k) ==
    LET leftIndex == LeftIndex(xs, xI, k)
        rightIndex == RightIndex(xs, xI, k)
    IN  [j \in 1..Len(xI) |->
            IF leftIndex <= j - 1 /\ j - 1 < rightIndex
            THEN Cubic(xs, ys, m, k, xI[j])
            ELSE yI[j]]

RECURSIVE PwcLoop(_, _, _, _, _, _)
PwcLoop(xs, ys, m, xI, yI, k) ==
    IF k < Len(xs) - 1
    THEN PwcLoop(xs, ys, m, xI, PwcInterval(xs, ys, m, xI, yI, k), k + 1)
    ELSE yI

\* a query that is no array has no slice method: line 151 throws
piecewiseCubic(xs, ys, m, v) ==
    IF v.kind = "array"
    THEN RArray(PwcLoop(xs, ys, m, RSeq(v.arr),
                        [j \in 1..Len(v.arr) |-> Undef], 0))
    ELSE Throw("TypeError: xI.slice is not a function")

\* pchip, src/index.ts 167-169
pchip(xs, ys, v) ==
    IF DpchimCheck(xs, ys) # "" THEN Throw(DpchimCheck(xs, ys))
    ELSE piecewiseCubic(xs, ys, dpchim(xs, ys), v)

\* Pchip.evaluate, src/index.ts 177-184
evaluate(xs, ys, m, v) ==
    IF v.kind = "array" THEN piecewiseCubic(xs, ys, m, v)
    ELSE RScalar(piecewiseCubic(xs, ys, m, Array(<<v.num>>)).arr[1])

(***************************************************************************)
(* The inputs explored.                                                    *)
(***************************************************************************)
SeqsUpTo(n, S) == UNION {[1..k -> S] : k \in 0..n}

SetMin(S) == CHOOSE a \in S : \A b \in S : a <= b

RECURSIVE Ascending(_)
Ascending(S) ==
    IF S = {} THEN <<>> ELSE <<SetMin(S)>> \o Ascending(S \ {SetMin(S)})

\* the strictly increasing abscissa sequences of 2..MaxN knots
ValidX == {Ascending(S) : S \in {T \in SUBSET (0..XMax) : Cardinality(T) \in 2..MaxN}}

ReadmeX == <<1, 2, 3, 4, 5>>
ReadmeY == <<1, 7, 11, 14, 28>>

QVals == (-1)..(XMax + 1)
KnotQueries(xs) == {Scalar(xs[k]) : k \in 1..Len(xs)} \cup {Array(xs)}
SweepQueries == {Scalar(v) : v \in QVals} \cup {Array(s) : s \in SeqsUpTo(MaxQ, QVals)}

Start ==
    /\ pc = "new"
    /\ frame = NoFrame
    /\ i = 0
    /\ deriv = <<>>
    /\ q = NoQuery
    /\ eres = NoRes
    /\ pres = NoRes
    /\ err = ""

\* any knots the checks accept, and any abscissas at all over a flat y of any length
Init ==
    /\ \/ /\ x \in ValidX
          /\ y \in [1..Len(x) -> 0..YMax]
       \/ /\ x \in SeqsUpTo(MaxN, 0..XMax)
          /\ y \in {[k \in 1..n |-> 0] : n \in 0..MaxN}
    /\ Start

\* samples of a parabola and the README's knots, for sweeps of the query
InitSweep ==
    /\ \/ /\ x \in ValidX
          /\ y = [k \in 1..Len(x) |-> x[k] * x[k]]
       \/ /\ x = ReadmeX
          /\ y = ReadmeY
    /\ Start

(***************************************************************************)
(* The client: new Pchip(x, y), then evaluate(q), then pchip(x, y, q)      *)
(* (README Usage).  The constructor's call of dpchim runs step by step.    *)
(***************************************************************************)
\* dpchim lines 24-35
Check ==
    /\ pc = "new"
    /\ IF DpchimCheck(x, y) # ""
       THEN pc' = "thrown" /\ err' = DpchimCheck(x, y)
       ELSE pc' = "checked" /\ err' = err
    /\ UNCHANGED <<x, y, frame, i, deriv, q, eres, pres>>

\* dpchim lines 36-39
TwoPoint ==
    /\ pc = "checked"
    /\ Len(x) = 2
    /\ frame' = [frame EXCEPT !.d = DpchimTwo(x, y)]
    /\ pc' = "return"
    /\ UNCHANGED <<x, y, i, deriv, q, eres, pres, err>>

\* dpchim lines 40-60, and the loop's initialisation of line 63
First ==
    /\ pc = "checked"
    /\ Len(x) # 2
    /\ frame' = DpchimFirst(x, y)
    /\ i' = 1
    /\ pc' = "loop"
    /\ UNCHANGED <<x, y, deriv, q, eres, pres, err>>

\* dpchim lines 63-86
Step ==
    /\ pc = "loop"
    /\ i < Len(x) - 1
    /\ frame' = DpchimStep(frame, x, y, i)
    /\ i' = i + 1
    /\ UNCHANGED <<x, y, pc, deriv, q, eres, pres, err>>

\* dpchim lines 88-103
Last ==
    /\ pc = "loop"
    /\ ~(i < Len(x) - 1)
    /\ frame' = DpchimLast(frame, Len(x))
    /\ pc' = "return"
    /\ UNCHANGED <<x, y, i, deriv, q, eres, pres, err>>

\* Pchip.constructor, lines 173-175
Construct ==
    /\ pc = "return"
    /\ deriv' = frame.d
    /\ pc' = "ready"
    /\ UNCHANGED <<x, y, frame, i, q, eres, pres, err>>

\* Pchip.evaluate, lines 177-184
Evaluate(Q) ==
    /\ pc = "ready"
    /\ \E v \in Q :
          /\ q' = v
          /\ eres' = evaluate(x, y, deriv, v)
    /\ pc' = "evaluated"
    /\ UNCHANGED <<x, y, frame, i, deriv, pres, err>>

EvaluateKnot == Evaluate(KnotQueries(x))
EvaluateSweep == Evaluate(SweepQueries)

\* pchip, lines 167-169, on the same query
CallPchip ==
    /\ pc = "evaluated"
    /\ pres' = pchip(x, y, q)
    /\ pc' = "done"
    /\ UNCHANGED <<x, y, frame, i, deriv, q, eres, err>>

Next ==
    \/ Check
    \/ TwoPoint
    \/ First
    \/ Step
    \/ Last
    \/ Construct
    \/ EvaluateKnot
    \/ CallPchip

NextSweep ==
    \/ Check
    \/ TwoPoint
    \/ First
    \/ Step
    \/ Last
    \/ Construct
    \/ EvaluateSweep
    \/ CallPchip

Spec == Init /\ [][Next]_vars
SpecSweep == InitSweep /\ [][NextSweep]_vars

(***************************************************************************)
(* Properties.                                                             *)
(***************************************************************************)
N == Len(x)
Returned == pc \in {"return", "ready", "evaluated", "done"}
Evaluated == pc \in {"evaluated", "done"}

\* the secant slope of interval k and its width, straight from the knots
Secant(k) == RDiv(R(At(y, k + 1) - At(y, k)), R(At(x, k + 1) - At(x, k)))
Width(k) == R(At(x, k + 1) - At(x, k))

Invalid ==
    \/ Len(x) # Len(y)
    \/ Len(x) < 2
    \/ \E k \in 2..Len(x) : x[k] <= x[k - 1]

IsSlopes(s) == Len(s) = N /\ \A k \in 1..N : IsNum(s[k])

\* C1: dpchim (in the constructor, and in pchip) throws an input error if and
\* only if the lengths differ, there are fewer than 2 points or some
\* x[i] <= x[i-1]; it throws before any slope exists (no slope array, no
\* deriv field), and on every other input it returns a full slope sequence.
C1_InputErrorIff ==
    /\ pc = "thrown" =>
          /\ Invalid
          /\ err \in {"input array lengths must match",
                      "number of data points less than two",
                      "x-array not strictly increasing"}
          /\ frame.d = <<>>
          /\ deriv = <<>>
    /\ pc \notin {"new", "thrown"} => ~Invalid
    /\ Returned => IsSlopes(frame.d)
    /\ pc \in {"ready", "evaluated", "done"} => deriv = frame.d
    /\ (pchip(x, y, Array(<<>>)).kind = "throw") = Invalid

C1_Witness ==
    /\ pc = "thrown"
    /\ err = "x-array not strictly increasing"
    /\ Len(x) = 3
    /\ x[2] = x[3]
    /\ x[1] < x[2]

\* C2: evaluate(x[k]) is exactly y[k] at the first, every interior and the
\* final knot.
C2_ExactAtKnots ==
    Evaluated /\ q.kind = "scalar" =>
        \A k \in 1..N : q.num = x[k] => eres = RScalar(R(y[k]))

C2_Witness ==
    /\ pc = "evaluated"
    /\ N >= 3
    /\ q = Scalar(x[N])
    /\ eres = RScalar(R(y[N]))
    /\ y[N] # y[N - 1]

\* C3: pchip(x, y, q) returns what new Pchip(x, y).evaluate(q) returns, a
\* number for a number q and an array of the same length for an array q;
\* pchip(x, y, 3) is 11 on the README's knots.
C3_PchipKeepsShape ==
    pc = "done" =>
        /\ pres = eres
        /\ q.kind = "scalar" => pres.kind = "scalar"
        /\ q.kind = "array" => pres.kind = "array" /\ Len(pres.arr) = Len(q.arr)
        /\ x = ReadmeX /\ y = ReadmeY /\ q = Scalar(3) => pres = RScalar(R(11))

\* the interval [x[k], x[k+1]) that holds v, for x[0] <= v < x[n-1]
IntervalOf(v) == CHOOSE k \in 0..(N - 2) : At(x, k) <= v /\ v < At(x, k + 1)

InRange(v) == x[1] <= v /\ v <= x[N]

\* C4: for a query array with all values in [x[0], x[n-1]], sorted or not,
\* the output has the length of the query and position j is the value at
\* xI[j] of the Hermite cubic of the interval [x[i], x[i+1]) holding xI[j]
\* (stated for the positions below the final knot, which such an interval
\* holds).
C4_QueryOrder ==
    Evaluated /\ q.kind = "array" /\ (\A j \in 1..Len(q.arr) : InRange(q.arr[j])) =>
        /\ eres.kind = "array"
        /\ Len(eres.arr) = Len(q.arr)
        /\ \A j \in 1..Len(q.arr) : q.arr[j] < x[N] =>
              eres.arr[j] = Cubic(x, y, deriv, IntervalOf(q.arr[j]), R(q.arr[j]))

\* the interval nearest to a value outside the knots
Nearest(v) == IF v < x[1] THEN 0 ELSE N - 2

\* C5: a query outside [x[0], x[n-1]] gets the value of the nearest
\* interval's cubic, so every output position holds a number.
C5_Extrapolated ==
    Evaluated =>
        /\ q.kind = "scalar" /\ ~InRange(q.num) =>
              eres = RScalar(Cubic(x, y, deriv, Nearest(q.num), R(q.num)))
        /\ q.kind = "array" =>
              \A j \in 1..Len(q.arr) :
                  /\ IsNum(eres.arr[j])
                  /\ ~InRange(q.arr[j]) =>
                        eres.arr[j] = Cubic(x, y, deriv, Nearest(q.arr[j]), R(q.arr[j]))

StrictlyIncreasing(s) == \A k \in 2..Len(s) : s[k - 1] < s[k]
StrictlyDecreasing(s) == \A k \in 2..Len(s) : s[k - 1] > s[k]

\* C6: with n >= 3 and strictly monotonic y, every slope dpchim returns is
\* >= 0 for increasing y and <= 0 for decreasing y.
C6_MonotoneSlopes ==
    Returned /\ N >= 3 =>
        /\ StrictlyIncreasing(y) => \A k \in 1..N : RLe(Zero, frame.d[k])
        /\ StrictlyDecreasing(y) => \A k \in 1..N : RLe(frame.d[k], Zero)

C6_Witness ==
    /\ pc = "return"
    /\ N = 3
    /\ StrictlyIncreasing(y)
    /\ frame.d[1] = Zero
    /\ RLt(Zero, frame.d[2])

\* the slope of interior knot k against the secants of intervals k-1 and k
InteriorOk(dk, k) ==
    LET del1 == Secant(k - 1)
        del2 == Secant(k)
    IN  IF dpchst(del1, del2) # 1 THEN dk = Zero
        ELSE /\ dpchst(dk, del1) = 1
             /\ RLe(RAbs(dk), RMul(R(3), RMin(RAbs(del1), RAbs(del2))))

\* C7: the slope of an interior knot i is 0 unless the secants of intervals
\* i-1 and i have the same sign, and then has their sign and a magnitude in
\* (0, 3*min(|del1|, |del2|)]; the loop works at knot i on the secants and
\* widths of intervals i-1 and i, at i = 1 too.
C7_InteriorSlopes ==
    /\ pc = "loop" =>
          /\ \A k \in 1..(i - 1) : InteriorOk(At(frame.d, k), k)
          /\ LET k == IF i = 1 THEN 1 ELSE i - 1
             IN  /\ frame.del1 = Secant(k - 1)
                 /\ frame.del2 = Secant(k)
                 /\ frame.h1 = Width(k - 1)
                 /\ frame.h2 = Width(k)
                 /\ frame.hsum = RAdd(Width(k - 1), Width(k))
    /\ Returned => \A k \in 1..(N - 2) : InteriorOk(At(frame.d, k), k)

C7_Witness ==
    /\ pc = "loop"
    /\ i = 3
    /\ frame.h1 # frame.h2
    /\ frame.del1 # frame.del2
    /\ At(frame.d, 1) = Zero
    /\ RLt(At(frame.d, 2), Zero)

Ascending2(s) == \A k \in 2..Len(s) : s[k - 1] <= s[k]

\* the output positions interval k writes, 0-based (lines 151-155)
Written(xI, k) ==
    {j \in 0..(Len(xI) - 1) : LeftIndex(x, xI, k) <= j /\ j < RightIndex(x, xI, k)}

\* C8: in an ascending query array, every query equal to the final knot is
\* evaluated in interval n-2 and yields y[n-1], however often it occurs, and
\* a query equal to an interior knot x[i] is evaluated in interval i only.
C8_LastIntervalClosed ==
    Evaluated /\ q.kind = "array" /\ Ascending2(q.arr) =>
        \A j \in 1..Len(q.arr) :
            /\ q.arr[j] = x[N] =>
                  /\ j - 1 \in Written(RSeq(q.arr), N - 2)
                  /\ eres.arr[j] = R(y[N])
            /\ \A k \in 1..(N - 2) : q.arr[j] = At(x, k) =>
                  /\ j - 1 \in Written(RSeq(q.arr), k)
                  /\ j - 1 \notin Written(RSeq(q.arr), k - 1)

\* an end slope against the secant of its interval
EndOk(dk, del) ==
    \/ dk = Zero
    \/ /\ dpchst(dk, del) = 1
       /\ RLe(RAbs(dk), RMul(R(3), RAbs(del)))

\* C9: with n >= 3 each end slope is 0 or has the sign of the adjacent
\* secant and at most 3 times its magnitude; it is 0 when the adjacent
\* interval is flat.
C9_EndSlopes ==
    Returned /\ N >= 3 =>
        /\ EndOk(frame.d[1], Secant(0))
        /\ EndOk(frame.d[N], Secant(N - 2))

\* the array piecewiseCubic works on for the query q
QueryArray == IF q.kind = "array" THEN RSeq(q.arr) ELSE <<R(q.num)>>

\* C10: within one call no output position is written by two intervals,
\* for sorted and unsorted queries alike.
C10_WrittenOnce ==
    Evaluated =>
        \A k1, k2 \in 0..(N - 2) :
            k1 # k2 => Written(QueryArray, k1) \cap Written(QueryArray, k2) = {}

C10_Witness ==
    /\ pc = "evaluated"
    /\ N = 3
    /\ q.kind = "array"
    /\ q.arr = <<x[3], x[2]>>
    /\ Written(QueryArray, 0) = {}
    /\ Written(QueryArray, 1) = {0, 1}

====
